---- MODULE Spec2Model ----
(***************************************************************************)
(* A model of the request/response pipeline of notion-go: client.Client.Do *)
(* (src/client/client.go), the Service methods and the authenticating      *)
(* transport built on it (src/notion/database.go, src/notion/notion.go),   *)
(* and the legacy request builder and response decoders of the notion      *)
(* package (src/notion/notion.go, src/notion/error.go).                    *)
(*                                                                         *)
(* Strings that the code inspects character by character (the HTTP method) *)
(* are sequences of one-character strings.  JSON texts are modelled by     *)
(* their syntax class and, when they parse, by the value they denote.      *)
(* A pointer is the name of the heap cell it points to.                    *)
(***************************************************************************)
EXTENDS Integers, Sequences, FiniteSets, TLC

VARIABLES
    pc,             \* where the caller is: "idle", "exchange", "responded",
                    \* "returned", "legacy"
    args,           \* the arguments of the current call of Client.Do, and the
                    \* order in which its query mapping was visited
    req,            \* the *http.Request built by newRequest
    resp,           \* what c.httpClient.Do(r) answered
    result,         \* the error value returned by Client.Do
    targetSuccess,  \* the content of the cell targetSuccess points to
    targetFailure,  \* the content of the cell targetFailure points to
    transportCalls, \* how often the transport capability was invoked in this call
    respBody,       \* the response body stream: decodes that read it, Close calls
    legacy,         \* the last result of the legacy notion.buildRequest
    client,         \* the fields of the Client the calls are made on
    ctx,            \* the context of the current call: cancelled or not, and where
                    \* the call was when the cancellation fired
    other,          \* a second caller of Client.Do on the same Client: its pc,
                    \* args, req, resp, result, targets, transport calls and body
    svc,            \* the call of a notion.Service method that is under way: the
                    \* method, its arguments and, once it returned, its results
    wire            \* the request the authenticating transport handed to the network

vars == <<pc, args, req, resp, result, targetSuccess, targetFailure,
          transportCalls, respBody, legacy, client, ctx, other, svc, wire>>

-----------------------------------------------------------------------------
(* Bounds of the model *)

\* the longest HTTP method string the caller passes
MaxMethodLen == 2

-----------------------------------------------------------------------------
(* Input domains *)

\* characters a method string is made of: two token characters, a space and
\* a non-ASCII rune (the unicorn of the tests)
MethodChars == {"G", "T", " ", "U+1F984"}

\* the RFC 7230 token characters the model uses (net/http validMethod)
TokenChars == {"G", "E", "T", "P", "O", "S"}

Methods == UNION {[1..n -> MethodChars] : n \in 0..MaxMethodLen}

\* Options.RootURL, as notion.New sets it
root == "https://api.notion.com/v1"

\* request paths; url.Parse rejects the second (invalid URL escape)
Paths == {"/foo", "/%zz"}

UnparsablePaths == {"/%zz", "/databases/%zz", "/databases/%zz/query"}

\* query mappings: nil, one pair, two pairs one of which needs escaping
Queries == { <<>>,
             [k \in {"userId"} |-> "horse"],
             [k \in {"abc", "foo"} |-> IF k = "abc" THEN "a b" ELSE "bar"] }

\* position of a query key in the byte-wise order of Go strings
KeyRank(k) == CASE k = "abc" -> 1 [] k = "foo" -> 2 [] k = "page_size" -> 3
                 [] k = "start_cursor" -> 4 [] k = "userId" -> 5

\* request bodies: nil, a struct with an omitempty string field holding
\* "body" or "", and a value json.Marshal cannot encode (a channel)
NilBody == [go |-> "nil"]

ChanBody == [go |-> "chan"]

StructBody(s) == [go |-> "struct", Body |-> s]

RequestBodies == {NilBody, ChanBody, StructBody("body"), StructBody("")}

-----------------------------------------------------------------------------
(* JSON *)

JNull == [t |-> "null"]

JString(s) == [t |-> "string", s |-> s]

JNumber(n) == [t |-> "number", n |-> n]

JObject(o) == [t |-> "object", o |-> o]

JArray(a) == [t |-> "array", a |-> a]

\* a JSON text: syntax "ok" (val is the value it denotes), "invalid" (#yolo)
\* or "empty" (no bytes)
Text(v) == [syntax |-> "ok", val |-> v]

InvalidText == [syntax |-> "invalid"]

EmptyText == [syntax |-> "empty"]

\* a body stream whose Read fails because the request's context is cancelled
UnreadableText == [syntax |-> "unreadable"]

\* the fields of the decode targets the services pass: Database and Error
SuccessFields == {"object", "id"}

FailureFields == {"code", "message"}

ZeroValue(fields) == [f \in fields |-> ""]

DatabaseText == Text(JObject([k \in {"object", "id"} |->
                    IF k = "object" THEN JString("database") ELSE JString("d1")]))

ErrorText == Text(JObject([k \in {"code", "message"} |->
                    IF k = "code" THEN JString("validation_error") ELSE JString("bad id")]))

\* a failure body whose message is a number: the code decodes, the message does not
ErrorTextBadMessage == Text(JObject([k \in {"code", "message"} |->
                    IF k = "code" THEN JString("validation_error") ELSE JNumber(400)]))

\* a success body whose id is a number
DatabaseTextBadId == Text(JObject([k \in {"object", "id"} |->
                    IF k = "object" THEN JString("database") ELSE JNumber(7)]))

ResponseBodies == {DatabaseText, ErrorText, ErrorTextBadMessage, DatabaseTextBadId,
                   Text(JNull), Text(JString("oops")), InvalidText, EmptyText}

StatusCodes == {200, 299, 300, 301, 400, 500, 503}

\* errors the transport can fail with
TransportCauses == {"connection error", "context canceled"}

\* what the caller's targets hold when Do is called
SuccessTargets == {ZeroValue(SuccessFields),
                   [f \in SuccessFields |-> IF f = "id" THEN "old" ELSE ""]}

FailureTargets == {ZeroValue(FailureFields),
                   [f \in FailureFields |-> IF f = "code" THEN "old" ELSE ""]}

-----------------------------------------------------------------------------
(* Values that stand for "nothing yet" *)

NoArgs == [none |-> TRUE]

NoReq == [none |-> TRUE]

NoResp == [kind |-> "none"]

Pending == [kind |-> "pending"]

NoBody == [reads |-> 0, closes |-> 0, into |-> <<>>]

NoLegacy == [none |-> TRUE]

\* no call of a Service method is under way
NoSvc == [op |-> "none"]

\* a context that is not cancelled
LiveCtx == [done |-> FALSE, at |-> "never"]

\* the second caller before it calls Do
OtherIdle ==
    [pc |-> "idle", args |-> NoArgs, req |-> NoReq, resp |-> NoResp, result |-> Pending,
     targetSuccess |-> ZeroValue(SuccessFields), targetFailure |-> ZeroValue(FailureFields),
     transportCalls |-> 0, respBody |-> NoBody, after |-> FALSE]

-----------------------------------------------------------------------------
(* Error values *)

\* the names of the two cells the caller's pointers refer to
PtrSuccess == "targetSuccess"

PtrFailure == "targetFailure"

\* the nil error
nil == [kind |-> "nil"]

\* an error raised by the standard library (json, net/http, net/url, the transport)
Cause(msg) == [kind |-> "cause", msg |-> msg]

\* client.LocalError{Reason, Inner}
LocalError(Reason, Inner) == [kind |-> "Local", Reason |-> Reason, Inner |-> Inner]

TransportError_NoCause(URL, Inner) == [kind |-> "Transport", URL |-> URL, Inner |-> nil]

\* client.TransportError{URL, Inner}
TransportError(URL, Inner) == [kind |-> "Transport", URL |-> URL, Inner |-> Inner]

ApplicationError_SuccessTarget(v) == [kind |-> "Application", v |-> PtrSuccess]

\* client.ApplicationError{v}: v is the pointer the caller passed as targetFailure
ApplicationError(v) == [kind |-> "Application", v |-> v]

\* notion.ClientError{Reason, Inner} of the legacy package
ClientError(Reason, Inner) == [kind |-> "Client", Reason |-> Reason, Inner |-> Inner]

\* the *url.Error http.Client.Do wraps a transport failure in
UrlError(Op, URL, Err) == [kind |-> "url.Error", Op |-> Op, URL |-> URL, Err |-> Err]

Unwrap_Nil(e) == nil

\* errors.Unwrap(e): LocalError.Unwrap and TransportError.Unwrap return
\* Inner; ApplicationError has no Unwrap method
Unwrap(e) == IF e.kind \in {"Local", "Transport"} THEN e.Inner ELSE nil

-----------------------------------------------------------------------------
(* Request construction *)

\* json.Marshal of a Filter and of a Sort: omitempty string fields
FilterJSON(f) ==
    JObject(IF f.Property = "" THEN <<>> ELSE [k \in {"property"} |-> JString(f.Property)])

SortJSON(x) ==
    JObject([k \in (IF x.Property = "" THEN {} ELSE {"property"})
                    \cup (IF x.Direction = "" THEN {} ELSE {"direction"}) |->
                IF k = "property" THEN JString(x.Property) ELSE JString(x.Direction)])

PayloadJSON_KeepsZeroPageSize(v) ==
    JObject([k \in (IF v.Filter.ptr = "nil" THEN {} ELSE {"filter"})
                    \cup (IF Len(v.Sorts) = 0 THEN {} ELSE {"sorts"})
                    \cup (IF v.StartCursor.ptr = "nil" THEN {} ELSE {"start_cursor"})
                    \cup {"page_size"} |->
                CASE k = "filter" -> FilterJSON(v.Filter)
                  [] k = "sorts" -> JArray([i \in 1..Len(v.Sorts) |-> SortJSON(v.Sorts[i])])
                  [] k = "start_cursor" -> JString(v.StartCursor.s)
                  [] k = "page_size" -> JNumber(v.PageSize)])

\* json.Marshal of the Payload struct of Service.QueryDatabase: every field
\* is omitempty, so a nil pointer, an empty slice and a zero int are left out
PayloadJSON(v) ==
    JObject([k \in (IF v.Filter.ptr = "nil" THEN {} ELSE {"filter"})
                    \cup (IF Len(v.Sorts) = 0 THEN {} ELSE {"sorts"})
                    \cup (IF v.StartCursor.ptr = "nil" THEN {} ELSE {"start_cursor"})
                    \cup (IF v.PageSize = 0 THEN {} ELSE {"page_size"}) |->
                CASE k = "filter" -> FilterJSON(v.Filter)
                  [] k = "sorts" -> JArray([i \in 1..Len(v.Sorts) |-> SortJSON(v.Sorts[i])])
                  [] k = "start_cursor" -> JString(v.StartCursor.s)
                  [] k = "page_size" -> JNumber(v.PageSize)])

encode_NeverFails(v) == [buf |-> Text(JNull), err |-> nil]

\* json.Marshal(v) wrapped in a buffer: nil is encoded as the text null, an
\* omitempty field holding "" is left out, a channel is not encodable
encode(v) ==
    CASE v.go = "nil"    -> [buf |-> Text(JNull), err |-> nil]
      [] v.go = "chan"   -> [buf |-> EmptyText, err |-> Cause("json: unsupported type: chan int")]
      [] v.go = "struct" -> [buf |-> Text(JObject(IF v.Body = "" THEN <<>>
                                                  ELSE [k \in {"body"} |-> JString(v.Body)])),
                             err |-> nil]
      [] v.go = "Payload" -> [buf |-> Text(PayloadJSON(v)), err |-> nil]

validMethod_NonEmpty(method) == Len(method) > 0

\* net/http validMethod: a non-empty sequence of token characters
validMethod(method) ==
    /\ Len(method) > 0
    /\ \A i \in 1..Len(method) : method[i] \in TokenChars

\* url.Parse of the request URL
ParseURL(rawurl, path) ==
    IF path \in UnparsablePaths
    THEN [URL |-> [base |-> "", RawQuery |-> ""], err |-> Cause("parse: invalid URL escape")]
    ELSE [URL |-> [base |-> rawurl, RawQuery |-> ""], err |-> nil]

\* http.NewRequest(method, url, body): an empty method means GET, the method
\* is validated before the URL is parsed
NewRequest(method, rootURL, path, body) ==
    LET m == IF method = <<>> THEN <<"G", "E", "T">> ELSE method
        u == ParseURL(rootURL \o path, path)
    IN  IF ~validMethod(m)
        THEN [req |-> NoReq, err |-> Cause("net/http: invalid method")]
        ELSE IF u.err # nil
        THEN [req |-> NoReq, err |-> u.err]
        ELSE [req |-> [Method |-> m, URL |-> u.URL, Header |-> <<>>, Body |-> body],
              err |-> nil]

QueryEscape_Identity(s) == s

\* url.QueryEscape on the values the model uses
QueryEscape(s) == CASE s = "a b" -> "a+b" [] OTHER -> s

\* the keys of a query mapping in ascending byte order
RECURSIVE SortedKeys(_)
SortedKeys(keys) ==
    IF keys = {} THEN <<>>
    ELSE LET k == CHOOSE x \in keys : \A y \in keys : KeyRank(x) <= KeyRank(y)
         IN  <<k>> \o SortedKeys(keys \ {k})

\* the orders in which a range loop can visit the keys of a mapping
Orders(query) ==
    {o \in [1..Cardinality(DOMAIN query) -> DOMAIN query] :
        \A i, j \in DOMAIN o : o[i] = o[j] => i = j}

\* url.Values.Add: append the value to the list of the key
ValuesAdd(q, key, value) ==
    IF key \in DOMAIN q THEN [q EXCEPT ![key] = Append(@, value)]
    ELSE [k \in DOMAIN q \cup {key} |-> IF k = key THEN <<value>> ELSE q[k]]

\* the loop "for k, v := range query { q.Add(k, v) }" visiting the keys in
\* the given order, starting from the values q
RECURSIVE AddAll(_, _, _)
AddAll(q, query, order) ==
    IF order = <<>> THEN q
    ELSE AddAll(ValuesAdd(q, Head(order), query[Head(order)]), query, Tail(order))

\* the pairs key=value of url.Values.Encode: keys in the given order, the
\* values of a key in the order of its list
RECURSIVE Pairs(_, _)
Pairs(q, ks) ==
    IF ks = <<>> THEN <<>>
    ELSE [i \in 1..Len(q[Head(ks)]) |->
              QueryEscape(Head(ks)) \o "=" \o QueryEscape(q[Head(ks)][i])]
         \o Pairs(q, Tail(ks))

\* strings.Join(pairs, "&")
RECURSIVE JoinPairs(_)
JoinPairs(pairs) ==
    IF pairs = <<>> THEN ""
    ELSE IF Len(pairs) = 1 THEN Head(pairs)
    ELSE Head(pairs) \o "&" \o JoinPairs(Tail(pairs))

\* url.Values.Encode: key=value pairs, sorted by key, joined by &
Encode(q) == JoinPairs(Pairs(q, SortedKeys(DOMAIN q)))

\* (*url.URL).String
URLString(u) == IF u.RawQuery = "" THEN u.base ELSE u.base \o "?" \o u.RawQuery

HeaderAdd_Dropped(h, key, value) == h

\* http.Header.Add
HeaderAdd(h, key, value) ==
    IF key \in DOMAIN h THEN [h EXCEPT ![key] = Append(@, value)]
    ELSE [k \in DOMAIN h \cup {key} |-> IF k = key THEN <<value>> ELSE h[k]]

newRequest_MethodFirst(c, method, path, query, order, body) ==
    LET e == encode(body)
        n == NewRequest(method, c.opts.RootURL, path, e.buf)
        r1 == IF Cardinality(DOMAIN query) > 0
              THEN [n.req EXCEPT !.URL.RawQuery = Encode(AddAll(<<>>, query, order))]
              ELSE n.req
        r2 == IF body # NilBody
              THEN [r1 EXCEPT !.Header = HeaderAdd(@, "Content-Type", "application/json")]
              ELSE r1
    IN  IF n.err # nil
        THEN [req |-> NoReq, err |-> LocalError("failed to create GET request", n.err)]
        ELSE IF e.err # nil
        THEN [req |-> NoReq, err |-> LocalError("failed to encode the body", e.err)]
        ELSE [req |-> r2, err |-> nil]

\* Client.newRequest on the Client c; order is the order in which the range
\* loop visits the query mapping
newRequest(c, method, path, query, order, body) ==
    LET e == encode(body)
        n == NewRequest(method, c.opts.RootURL, path, e.buf)
        r1 == IF Cardinality(DOMAIN query) > 0
              THEN [n.req EXCEPT !.URL.RawQuery = Encode(AddAll(<<>>, query, order))]
              ELSE n.req
        r2 == IF body # NilBody
              THEN [r1 EXCEPT !.Header = HeaderAdd(@, "Content-Type", "application/json")]
              ELSE r1
    IN  IF e.err # nil
        THEN [req |-> NoReq, err |-> LocalError("failed to encode the body", e.err)]
        ELSE IF n.err # nil
        THEN [req |-> NoReq, err |-> LocalError("failed to create GET request", n.err)]
        ELSE [req |-> r2, err |-> nil]

\* the legacy notion.buildRequest; order is the order in which the range
\* loop visits the query mapping
buildRequest(method, url, query, order, payload) ==
    LET n == NewRequest(method, root, url, payload)
        r1 == IF Cardinality(DOMAIN query) > 0
              THEN [n.req EXCEPT !.URL.RawQuery = Encode(AddAll(<<>>, query, order))]
              ELSE n.req
        r2 == [r1 EXCEPT !.Header = [k \in {"Notion-Version"} |-> <<"2021-05-13">>]]
    IN  IF n.err # nil
        THEN [req |-> NoReq, err |-> ClientError("can't create a request", n.err)]
        ELSE [req |-> r2, err |-> nil]

-----------------------------------------------------------------------------
(* Response handling *)

\* json.Unmarshal of an object member into a string field: a string is
\* stored, null leaves the field alone, anything else is a type error and
\* leaves the field alone
FieldAfter_NotStored(member, old) == old

FieldAfter(member, old) == IF member.t = "string" THEN member.s ELSE old

FieldMismatch(member) == member.t \notin {"string", "null"}

\* Client.decode: json.NewDecoder(resp.Body).Decode(v) for a pointer v to a
\* struct of string fields holding cur.  A text that is empty or invalid, or
\* a body whose read fails, is rejected before anything is stored; an object is stored member by member,
\* a mismatching member is skipped and reported after the others are stored.
decode(text, cur) ==
    CASE text.syntax = "empty"   -> [v |-> cur, err |-> Cause("EOF")]
      [] text.syntax = "invalid" -> [v |-> cur, err |-> Cause("invalid character '#' looking for beginning of value")]
      [] text.syntax = "unreadable" -> [v |-> cur, err |-> Cause("context canceled")]
      [] text.syntax = "ok" ->
            CASE text.val.t = "null" -> [v |-> cur, err |-> nil]
              [] text.val.t = "object" ->
                    LET o == text.val.o
                        present == DOMAIN o \cap DOMAIN cur
                    IN  [v   |-> [f \in DOMAIN cur |->
                                    IF f \in present THEN FieldAfter(o[f], cur[f]) ELSE cur[f]],
                         err |-> IF \E f \in present : FieldMismatch(o[f])
                                 THEN Cause("json: cannot unmarshal into Go struct field")
                                 ELSE nil]
              [] OTHER -> [v |-> cur, err |-> Cause("json: cannot unmarshal into Go value")]

IsSuccessStatus_Below300(StatusCode) == StatusCode < 300

IsSuccessStatus_Below400(StatusCode) == StatusCode < 400

\* the status branch of Client.do
IsSuccessStatus(StatusCode) == StatusCode <= 300

doSuccess_IgnoreDecodeError(Body, ts, tf) ==
    LET d == decode(Body, ts)
    IN  [err |-> nil, ts |-> d.v, tf |-> tf, body |-> [reads |-> 1, closes |-> 1, into |-> <<PtrSuccess>>]]

doSuccess_NoCloseOnError(Body, ts, tf) ==
    LET d == decode(Body, ts)
    IN  [err |-> IF d.err # nil
                 THEN LocalError("can't decode successful response", d.err)
                 ELSE nil,
         ts |-> d.v, tf |-> tf,
         body |-> [reads |-> 1, closes |-> IF d.err # nil THEN 0 ELSE 1,
                   into |-> <<PtrSuccess>>]]

\* Client.do, the branch for a status that counts as success: decode into
\* targetSuccess.  Yields the returned error, the new contents of the two
\* targets and the use made of the body (the deferred Close included).
doSuccess(Body, ts, tf) ==
    LET d == decode(Body, ts)
    IN  [err |-> IF d.err # nil
                 THEN LocalError("can't decode successful response", d.err)
                 ELSE nil,
         ts |-> d.v, tf |-> tf, body |-> [reads |-> 1, closes |-> 1, into |-> <<PtrSuccess>>]]

doFailure_NoDecode(Body, ts, tf) ==
    [err |-> ApplicationError(PtrFailure),
     ts |-> ts, tf |-> tf, body |-> [reads |-> 0, closes |-> 1, into |-> <<>>]]

doFailure_BestEffort(Body, ts, tf) ==
    LET d == decode(Body, tf)
    IN  [err |-> ApplicationError(PtrFailure),
         ts |-> ts, tf |-> d.v, body |-> [reads |-> 1, closes |-> 1, into |-> <<PtrFailure>>]]

doFailure_SuccessReason(Body, ts, tf) ==
    LET d == decode(Body, tf)
    IN  [err |-> IF d.err # nil
                 THEN LocalError("can't decode successful response", d.err)
                 ELSE ApplicationError(PtrFailure),
         ts |-> ts, tf |-> d.v, body |-> [reads |-> 1, closes |-> 1, into |-> <<PtrFailure>>]]

doFailure_DecodeBoth(Body, ts, tf) ==
    LET s == decode(Body, ts)
        d == decode(Body, tf)
    IN  [err |-> IF d.err # nil
                 THEN LocalError("can't decode failure response", d.err)
                 ELSE ApplicationError(PtrFailure),
         ts |-> s.v, tf |-> d.v,
         body |-> [reads |-> 2, closes |-> 1, into |-> <<PtrSuccess, PtrFailure>>]]

doFailure_ErrorHoldsCopy(Body, ts, tf) ==
    LET d == decode(Body, tf)
    IN  [err |-> IF d.err # nil
                 THEN LocalError("can't decode failure response", d.err)
                 ELSE [kind |-> "Application", v |-> "copy", copy |-> d.v],
         ts |-> ts, tf |-> d.v, body |-> [reads |-> 1, closes |-> 1, into |-> <<PtrFailure>>]]

\* Client.do, the branch for any other status: decode into targetFailure
doFailure(Body, ts, tf) ==
    LET d == decode(Body, tf)
    IN  [err |-> IF d.err # nil
                 THEN LocalError("can't decode failure response", d.err)
                 ELSE ApplicationError(PtrFailure),
         ts |-> ts, tf |-> d.v, body |-> [reads |-> 1, closes |-> 1, into |-> <<PtrFailure>>]]

\* Client.do once c.httpClient.Do(r) has answered: answer is the response or
\* the error, ts and tf are what the two targets hold
do(r, answer, ts, tf) ==
    IF answer.kind = "error"
    THEN [err |-> TransportError(URLString(r.URL), answer.err),
          ts |-> ts, tf |-> tf, body |-> NoBody]
    ELSE IF IsSuccessStatus(answer.StatusCode)
    THEN doSuccess(answer.Body, ts, tf)
    ELSE doFailure(answer.Body, ts, tf)

-----------------------------------------------------------------------------
(* The state machine *)

\* client.New(httpClient, Options{RootURL: root}), as notion.New calls it
NewClient == [httpClient |-> "httpClient", opts |-> [RootURL |-> root]]

Init ==
    /\ pc = "idle"
    /\ args = NoArgs
    /\ req = NoReq
    /\ resp = NoResp
    /\ result = Pending
    /\ targetSuccess = ZeroValue(SuccessFields)
    /\ targetFailure = ZeroValue(FailureFields)
    /\ transportCalls = 0
    /\ respBody = NoBody
    /\ legacy = NoLegacy
    /\ client = NewClient
    /\ ctx = LiveCtx
    /\ other = OtherIdle
    /\ svc = NoSvc
    /\ wire = NoReq

Do_AppendsPathToRoot(method, path, query, body, ts, tf) ==
    /\ pc = "idle"
    /\ \E order \in Orders(query) :
         LET n == newRequest(client, method, path, query, order, body)
         IN  /\ req' = n.req
             /\ result' = IF n.err # nil THEN n.err ELSE Pending
             /\ pc' = IF n.err # nil THEN "returned" ELSE "exchange"
             /\ args' = [method |-> method, path |-> path, query |-> query,
                         body |-> body, targetSuccess |-> ts, targetFailure |-> tf,
                         order |-> order]
    /\ client' = [client EXCEPT !.opts.RootURL = @ \o path]
    /\ targetSuccess' = ts
    /\ targetFailure' = tf
    /\ resp' = NoResp
    /\ transportCalls' = 0
    /\ respBody' = NoBody
    /\ UNCHANGED <<legacy, ctx, other, svc, wire>>

\* what Client.Do does up to the call of c.httpClient.Do: newRequest, and
\* the return of its error
DoBegins(method, path, query, body, ts, tf) ==
    /\ pc = "idle"
    /\ \E order \in Orders(query) :
         LET n == newRequest(client, method, path, query, order, body)
         IN  /\ req' = n.req
             /\ result' = IF n.err # nil THEN n.err ELSE Pending
             /\ pc' = IF n.err # nil THEN "returned" ELSE "exchange"
             /\ args' = [method |-> method, path |-> path, query |-> query,
                         body |-> body, targetSuccess |-> ts, targetFailure |-> tf,
                         order |-> order]
    /\ targetSuccess' = ts
    /\ targetFailure' = tf
    /\ resp' = NoResp
    /\ transportCalls' = 0
    /\ respBody' = NoBody

\* Client.Do called directly, up to the call of c.httpClient.Do
Do(method, path, query, body, ts, tf) ==
    /\ DoBegins(method, path, query, body, ts, tf)
    /\ UNCHANGED <<legacy, client, ctx, other, svc, wire>>

Answer_RetryOnError(answer) ==
    /\ transportCalls' = IF answer.kind = "error" THEN transportCalls + 2
                         ELSE transportCalls + 1
    /\ resp' = answer
    /\ LET d == do(req, answer, targetSuccess, targetFailure)
       IN  /\ result' = d.err
           /\ targetSuccess' = d.ts
           /\ targetFailure' = d.tf
           /\ respBody' = d.body
    /\ pc' = "returned"
    /\ UNCHANGED <<args, req, legacy, client, ctx, other, svc, wire>>

\* the rest of Client.do for one answer of c.httpClient.Do
Answer(answer) ==
    /\ transportCalls' = transportCalls + 1
    /\ resp' = answer
    /\ LET d == do(req, answer, targetSuccess, targetFailure)
       IN  /\ result' = d.err
           /\ targetSuccess' = d.ts
           /\ targetFailure' = d.tf
           /\ respBody' = d.body
    /\ pc' = "returned"
    /\ UNCHANGED <<args, req, legacy, client, ctx, other, svc, wire>>

\* c.httpClient.Do(r) returns a response
TransportResponds(StatusCode, Body) ==
    /\ pc = "exchange"
    /\ Answer([kind |-> "response", StatusCode |-> StatusCode, Body |-> Body])

\* c.httpClient.Do(r) fails: http.Client wraps the cause in a *url.Error
TransportFails(cause) ==
    /\ pc = "exchange"
    /\ Answer([kind |-> "error",
               err |-> UrlError(req.Method, URLString(req.URL), Cause(cause))])

\* the legacy notion.buildRequest, called on its own as in Test_buildRequest
BuildRequest(method, url, query, payload) ==
    /\ pc = "idle"
    /\ \E order \in Orders(query) :
         legacy' = [method |-> method, url |-> url, query |-> query, order |-> order,
                    out |-> buildRequest(method, url, query, order, payload)]
    /\ pc' = "legacy"
    /\ UNCHANGED <<args, req, resp, result, targetSuccess, targetFailure,
                   transportCalls, respBody, client, ctx, other, svc, wire>>

\* the caller has looked at the outcome and drops the call's values
Return ==
    /\ pc \in {"returned", "legacy"}
    /\ pc' = "idle"
    /\ args' = NoArgs
    /\ req' = NoReq
    /\ resp' = NoResp
    /\ result' = Pending
    /\ targetSuccess' = ZeroValue(SuccessFields)
    /\ targetFailure' = ZeroValue(FailureFields)
    /\ transportCalls' = 0
    /\ respBody' = NoBody
    /\ legacy' = NoLegacy
    /\ ctx' = LiveCtx
    /\ svc' = NoSvc
    /\ wire' = NoReq
    /\ UNCHANGED <<client, other>>

Next ==
    \/ \E method \in Methods, path \in Paths, query \in Queries,
          body \in RequestBodies, ts \in SuccessTargets, tf \in FailureTargets :
            Do(method, path, query, body, ts, tf)
    \/ \E StatusCode \in StatusCodes, Body \in ResponseBodies :
            TransportResponds(StatusCode, Body)
    \/ \E cause \in TransportCauses : TransportFails(cause)
    \/ \E method \in Methods, url \in Paths, query \in Queries,
          payload \in {EmptyText, DatabaseText} :
            BuildRequest(method, url, query, payload)
    \/ Return

Spec == Init /\ [][Next]_vars

-----------------------------------------------------------------------------
(* Two callers on one Client *)

\* the inputs and answers of the calls when two calls run side by side, or a
\* call is cancelled: a valid and a malformed method, no query or two pairs,
\* no body or a struct, fresh targets
FewMethods == {<<>>, <<" ">>}

FewQueries == {q \in Queries : Cardinality(DOMAIN q) # 1}

FewBodies == {NilBody, StructBody("body")}

FewStatusCodes == {200, 400}

FewResponseBodies == {DatabaseText, ErrorText, InvalidText}

\* the variables of the first caller
first == <<pc, args, req, resp, result, targetSuccess, targetFailure,
           transportCalls, respBody>>

\* Client.Do of the second caller up to the call of c.httpClient.Do
OtherDo(method, path, query, body, ts, tf) ==
    /\ other.pc = "idle"
    /\ \E order \in Orders(query) :
         LET n == newRequest(client, method, path, query, order, body)
         IN  other' = [pc |-> IF n.err # nil THEN "returned" ELSE "exchange",
                       args |-> [method |-> method, path |-> path, query |-> query,
                                 body |-> body, targetSuccess |-> ts,
                                 targetFailure |-> tf, order |-> order],
                       req |-> n.req,
                       resp |-> NoResp,
                       result |-> IF n.err # nil THEN n.err ELSE Pending,
                       targetSuccess |-> ts,
                       targetFailure |-> tf,
                       transportCalls |-> 0,
                       respBody |-> NoBody,
                       after |-> (pc = "returned")]
    /\ UNCHANGED <<first, legacy, client, ctx, svc, wire>>

OtherAnswer_SharedTargets(answer) ==
    /\ LET d == do(other.req, answer, targetSuccess, targetFailure)
       IN  /\ other' = [other EXCEPT !.pc = "returned", !.resp = answer,
                                     !.result = d.err,
                                     !.transportCalls = @ + 1,
                                     !.respBody = d.body]
           /\ targetSuccess' = d.ts
           /\ targetFailure' = d.tf
    /\ UNCHANGED <<pc, args, req, resp, result, transportCalls, respBody,
                   legacy, client, ctx, svc, wire>>

\* the rest of Client.do of the second caller for one answer of
\* c.httpClient.Do
OtherAnswer(answer) ==
    /\ LET d == do(other.req, answer, other.targetSuccess, other.targetFailure)
       IN  other' = [other EXCEPT !.pc = "returned", !.resp = answer,
                                  !.result = d.err,
                                  !.targetSuccess = d.ts,
                                  !.targetFailure = d.tf,
                                  !.transportCalls = @ + 1,
                                  !.respBody = d.body]
    /\ UNCHANGED <<first, legacy, client, ctx, svc, wire>>

\* c.httpClient.Do(r) returns a response to the second caller
OtherTransportResponds(StatusCode, Body) ==
    /\ other.pc = "exchange"
    /\ OtherAnswer([kind |-> "response", StatusCode |-> StatusCode, Body |-> Body])

\* c.httpClient.Do(r) of the second caller fails
OtherTransportFails(cause) ==
    /\ other.pc = "exchange"
    /\ OtherAnswer([kind |-> "error",
                    err |-> UrlError(other.req.Method, URLString(other.req.URL),
                                     Cause(cause))])

\* the second caller drops the call's values
OtherReturn ==
    /\ other.pc = "returned"
    /\ other' = OtherIdle
    /\ UNCHANGED <<first, legacy, client, ctx, svc, wire>>

NextConc ==
    \/ \E method \in FewMethods, query \in FewQueries, body \in FewBodies :
            Do(method, "/foo", query, body,
               ZeroValue(SuccessFields), ZeroValue(FailureFields))
    \/ \E StatusCode \in FewStatusCodes, Body \in FewResponseBodies :
            TransportResponds(StatusCode, Body)
    \/ TransportFails("connection error")
    \/ Return
    \/ \E method \in FewMethods, query \in FewQueries, body \in FewBodies :
            OtherDo(method, "/foo", query, body,
                    ZeroValue(SuccessFields), ZeroValue(FailureFields))
    \/ \E StatusCode \in FewStatusCodes, Body \in FewResponseBodies :
            OtherTransportResponds(StatusCode, Body)
    \/ OtherTransportFails("connection error")
    \/ OtherReturn

\* two callers whose steps interleave in every way
SpecConc == Init /\ [][NextConc]_vars

-----------------------------------------------------------------------------
(* Cancellation *)

\* the caller's cancellation signal fires while the call is in Client.do
Cancel ==
    /\ pc \in {"exchange", "responded"}
    /\ ~ctx.done
    /\ ctx' = [done |-> TRUE, at |-> pc]
    /\ UNCHANGED <<first, legacy, client, other, svc, wire>>

\* c.httpClient.Do(r) returns a response; Client.do has not yet looked at it
ExchangeResponds(StatusCode, Body) ==
    /\ pc = "exchange"
    /\ ~ctx.done
    /\ resp' = [kind |-> "response", StatusCode |-> StatusCode, Body |-> Body]
    /\ transportCalls' = transportCalls + 1
    /\ pc' = "responded"
    /\ UNCHANGED <<args, req, result, targetSuccess, targetFailure, respBody,
                   legacy, client, ctx, other, svc, wire>>

\* c.httpClient.Do(r) fails; a transport aborts the exchange of a request
\* whose context is cancelled
ExchangeFails(cause) ==
    /\ ctx.done => cause = "context canceled"
    /\ TransportFails(cause)

Classify_NeverReturns ==
    /\ pc = "responded"
    /\ UNCHANGED vars

Classify_ChecksContext ==
    /\ pc = "responded"
    /\ LET d == IF ctx.done
                THEN [err |-> TransportError(URLString(req.URL), Cause("context canceled")),
                      ts |-> targetSuccess, tf |-> targetFailure,
                      body |-> [reads |-> 0, closes |-> 1, into |-> <<>>]]
                ELSE do(req, resp, targetSuccess, targetFailure)
       IN  /\ result' = d.err
           /\ targetSuccess' = d.ts
           /\ targetFailure' = d.tf
           /\ respBody' = d.body
    /\ pc' = "returned"
    /\ UNCHANGED <<args, req, resp, transportCalls, legacy, client, ctx, other, svc, wire>>

\* Client.do from the response on: the status branch, the decode and the
\* deferred Close.  Client.do does not look at the context; once it is
\* cancelled a read of the body either still yields the bytes (they were
\* buffered) or fails.
Classify ==
    /\ pc = "responded"
    /\ \E seen \in (IF ctx.done THEN {resp.Body, UnreadableText} ELSE {resp.Body}) :
         LET d == do(req, [resp EXCEPT !.Body = seen], targetSuccess, targetFailure)
         IN  /\ result' = d.err
             /\ targetSuccess' = d.ts
             /\ targetFailure' = d.tf
             /\ respBody' = d.body
    /\ pc' = "returned"
    /\ UNCHANGED <<args, req, resp, transportCalls, legacy, client, ctx, other, svc, wire>>

NextCancel ==
    \/ \E method \in FewMethods, query \in FewQueries, body \in FewBodies :
            Do(method, "/foo", query, body,
               ZeroValue(SuccessFields), ZeroValue(FailureFields))
    \/ Cancel
    \/ \E StatusCode \in FewStatusCodes, Body \in FewResponseBodies :
            ExchangeResponds(StatusCode, Body)
    \/ \E cause \in TransportCauses : ExchangeFails(cause)
    \/ Classify
    \/ Return

\* one caller whose context can be cancelled during the call
SpecCancel == Init /\ [][NextCancel]_vars

\* the same with the scheduling the code and its transport give: the
\* transport eventually answers a request it was handed, and once the
\* context is cancelled the read of the body ends (it fails at the latest),
\* so the rest of Client.do runs.  Nothing makes the peer deliver the body of
\* a response whose context is live: resp.Body streams from the connection
\* and notion.New sets no timeout.
SpecLive ==
    /\ Init
    /\ [][NextCancel]_vars
    /\ WF_vars(\/ \E StatusCode \in FewStatusCodes, Body \in FewResponseBodies :
                        ExchangeResponds(StatusCode, Body)
               \/ \E cause \in TransportCauses : ExchangeFails(cause))
    /\ WF_vars(ctx.done /\ Classify)

-----------------------------------------------------------------------------
(* The legacy response decoders of the notion package *)

\* notion.ApplicationError{HttpStatusCode, Code, Message} of the legacy package
notion_ApplicationError(HttpStatusCode, Code, Message) ==
    [kind |-> "notion.ApplicationError", HttpStatusCode |-> HttpStatusCode,
     Code |-> Code, Message |-> Message]

\* notion.ApiServerError{HttpStatusCode, Code, Message}
ApiServerError(HttpStatusCode, Code, Message) ==
    [kind |-> "notion.ApiServerError", HttpStatusCode |-> HttpStatusCode,
     Code |-> Code, Message |-> Message]

decodeResponse_AbortOnBadBody(r, target) ==
    IF r.StatusCode >= 300
    THEN LET d == decode(r.Body, ZeroValue(FailureFields))
         IN  [err |-> IF d.err # nil
                      THEN ClientError("can't parse the response", d.err)
                      ELSE notion_ApplicationError(r.StatusCode, d.v.code, d.v.message),
              target |-> target, closes |-> 1]
    ELSE LET d == decode(r.Body, target)
         IN  [err |-> IF d.err # nil
                      THEN ClientError("can't parse the response", d.err)
                      ELSE nil,
              target |-> d.v, closes |-> 1]

decodeResponse_SameBoundaryAsDo(r, target) ==
    IF r.StatusCode > 300
    THEN LET d == decode(r.Body, ZeroValue(FailureFields))
         IN  [err |-> notion_ApplicationError(r.StatusCode, d.v.code, d.v.message),
              target |-> target, closes |-> 1]
    ELSE LET d == decode(r.Body, target)
         IN  [err |-> IF d.err # nil
                      THEN ClientError("can't parse the response", d.err)
                      ELSE nil,
              target |-> d.v, closes |-> 1]

\* notion.decodeResponse(resp, target): for a status >= 300 the body is
\* decoded into a fresh ApplicationError, a decode failure is only logged,
\* and the status code is stored last; otherwise the body is decoded into
\* the target.  Yields the returned error, what the target holds afterwards
\* and the deferred Close.
decodeResponse(r, target) ==
    IF r.StatusCode >= 300
    THEN LET d == decode(r.Body, ZeroValue(FailureFields))
         IN  [err |-> notion_ApplicationError(r.StatusCode, d.v.code, d.v.message),
              target |-> target, closes |-> 1]
    ELSE LET d == decode(r.Body, target)
         IN  [err |-> IF d.err # nil
                      THEN ClientError("can't parse the response", d.err)
                      ELSE nil,
              target |-> d.v, closes |-> 1]

\* notion.parseErrorFromResponse(resp): the same best-effort decode, for any
\* status, without closing the body
parseErrorFromResponse(r) ==
    LET d == decode(r.Body, ZeroValue(FailureFields))
    IN  ApiServerError(r.StatusCode, d.v.code, d.v.message)

\* a response with the status and body of the one Client.do has just
\* classified is handed to notion.decodeResponse
DecodeResponse(target) ==
    /\ pc = "returned"
    /\ resp.kind = "response"
    /\ legacy = NoLegacy
    /\ legacy' = [fn |-> "decodeResponse", target |-> target,
                  ret |-> decodeResponse(resp, target)]
    /\ UNCHANGED <<first, client, ctx, other, svc, wire>>

\* the same for notion.parseErrorFromResponse
ParseErrorFromResponse ==
    /\ pc = "returned"
    /\ resp.kind = "response"
    /\ legacy = NoLegacy
    /\ legacy' = [fn |-> "parseErrorFromResponse",
                  ret |-> [err |-> parseErrorFromResponse(resp)]]
    /\ UNCHANGED <<first, client, ctx, other, svc, wire>>

NextLegacy ==
    \/ \E method \in FewMethods, ts \in SuccessTargets :
            Do(method, "/foo", <<>>, NilBody, ts, ZeroValue(FailureFields))
    \/ \E StatusCode \in StatusCodes, Body \in ResponseBodies :
            TransportResponds(StatusCode, Body)
    \/ \E cause \in TransportCauses : TransportFails(cause)
    \/ \E target \in SuccessTargets : DecodeResponse(target)
    \/ ParseErrorFromResponse
    \/ Return

\* the two response pipelines of the repository on the same responses
SpecLegacy == Init /\ [][NextLegacy]_vars

-----------------------------------------------------------------------------
(* The notion.Service methods and the authenticating transport *)

\* the Notion-Version the package sends
version == "2021-05-13"

\* the token a Service is built with by notion.New
Tokens == {"secret", ""}

\* database ids: a plain one, and one that makes the request URL unparsable
DatabaseIDs == {"d1", "%zz"}

\* http.MethodGet and http.MethodPost
MethodGet == <<"G", "E", "T">>

MethodPost == <<"P", "O", "S", "T">>

\* the string fields of PageList and of DatabaseList that the model keeps
PageListFields == {"object", "next_cursor"}

DatabaseListFields == {"next_cursor"}

\* a list body as the API sends it
ListText == Text(JObject([k \in {"object", "next_cursor"} |->
                IF k = "object" THEN JString("list") ELSE JString("c2")]))

\* *Filter arguments: nil or a filter on a property
NilFilter == [ptr |-> "nil"]

Filters == {NilFilter, [ptr |-> "set", Property |-> "Foo"]}

\* []Sort arguments: nil or one sort
SortLists == {<<>>, <<[Property |-> "Bar", Direction |-> "ascending"]>>}

\* *Pagination arguments: nil, or a Pagination{StartCursor, PageSize}
NilPagination == [ptr |-> "nil"]

Pagination(StartCursor, PageSize) ==
    [ptr |-> "set", StartCursor |-> StartCursor, PageSize |-> PageSize]

PageSizes == {0, 7, 100, -1}

Paginations == {NilPagination} \cup
               {Pagination(c, n) : c \in {"", "qwerty"}, n \in PageSizes}

\* the decimal digits of strconv.Itoa
Digit(d) == CASE d = 0 -> "0" [] d = 1 -> "1" [] d = 2 -> "2" [] d = 3 -> "3"
              [] d = 4 -> "4" [] d = 5 -> "5" [] d = 6 -> "6" [] d = 7 -> "7"
              [] d = 8 -> "8" [] d = 9 -> "9"

\* strconv.Itoa
RECURSIVE Itoa(_)
Itoa(n) ==
    IF n < 0 THEN "-" \o Itoa(-n)
    ELSE IF n < 10 THEN Digit(n)
    ELSE Itoa(n \div 10) \o Digit(n % 10)

Pagination_query_OmitsZeroPageSize(p) ==
    IF p.ptr = "nil" THEN <<>>
    ELSE [k \in (IF p.PageSize = 0 THEN {} ELSE {"page_size"})
                \cup (IF p.StartCursor = "" THEN {} ELSE {"start_cursor"}) |->
             IF k = "page_size" THEN Itoa(p.PageSize) ELSE p.StartCursor]

\* (*Pagination).query: nil for a nil receiver (the mapping without keys),
\* otherwise page_size always and start_cursor when it is not empty
Pagination_query(p) ==
    IF p.ptr = "nil" THEN <<>>
    ELSE [k \in {"page_size"} \cup (IF p.StartCursor = "" THEN {} ELSE {"start_cursor"}) |->
             IF k = "page_size" THEN Itoa(p.PageSize) ELSE p.StartCursor]

\* the Payload value Service.QueryDatabase builds from its arguments
Payload(filter, sorts, pagination) ==
    [go |-> "Payload",
     Filter |-> filter,
     Sorts |-> sorts,
     StartCursor |-> IF pagination.ptr # "nil" /\ pagination.StartCursor # ""
                     THEN [ptr |-> "set", s |-> pagination.StartCursor]
                     ELSE [ptr |-> "nil"],
     PageSize |-> IF pagination.ptr # "nil" THEN pagination.PageSize ELSE 0]

\* a Service method has not returned yet
NoOut == [res |-> "none", err |-> Pending]

ServiceResult_KeepsTargetOnError(err) ==
    IF err # nil THEN [res |-> PtrSuccess, err |-> err]
    ELSE [res |-> PtrSuccess, err |-> nil]

\* the end of each Service method: "if err := s.client.Do(...); err != nil
\* { return nil, err }; return db, nil"; res is the returned pointer
ServiceResult(err) ==
    IF err # nil THEN [res |-> "nil", err |-> err]
    ELSE [res |-> PtrSuccess, err |-> nil]

RoundTrip_InPlace(t, r) ==
    LET r1 == [r EXCEPT !.Header = HeaderAdd(@, "Authorization", "Bearer " \o t.token)]
        r2 == [r1 EXCEPT !.Header = HeaderAdd(@, "Notion-Version", version)]
    IN  [sent |-> r2, req |-> r2]

\* transport.RoundTrip up to the call of http.DefaultTransport.RoundTrip:
\* req.Clone copies the header map, the two headers are added to the copy.
\* Yields the request sent on and what the caller's request holds afterwards.
RoundTrip(t, r) ==
    LET r1 == [r EXCEPT !.Header = HeaderAdd(@, "Authorization", "Bearer " \o t.token)]
        r2 == [r1 EXCEPT !.Header = HeaderAdd(@, "Notion-Version", version)]
    IN  [sent |-> r2, req |-> r]

\* Pagination.query called on its own
Query(p) ==
    /\ pc = "idle"
    /\ svc' = [op |-> "query", pagination |-> p, ret |-> Pagination_query(p)]
    /\ UNCHANGED <<first, legacy, client, ctx, other, wire>>

\* Service.RetrieveDatabase up to the call of c.httpClient.Do
RetrieveDatabase(token, databaseID) ==
    /\ svc' = [op |-> "RetrieveDatabase", token |-> token, databaseID |-> databaseID,
               out |-> NoOut]
    /\ DoBegins(MethodGet, "/databases/" \o databaseID, <<>>, NilBody,
                ZeroValue(SuccessFields), ZeroValue(FailureFields))
    /\ UNCHANGED <<legacy, client, ctx, other, wire>>

\* Service.QueryDatabase up to the call of c.httpClient.Do
QueryDatabase(token, databaseID, filter, sorts, pagination) ==
    /\ svc' = [op |-> "QueryDatabase", token |-> token, databaseID |-> databaseID,
               filter |-> filter, sorts |-> sorts, pagination |-> pagination,
               out |-> NoOut]
    /\ DoBegins(MethodPost, "/databases/" \o databaseID \o "/query", <<>>,
                Payload(filter, sorts, pagination),
                ZeroValue(PageListFields), ZeroValue(FailureFields))
    /\ UNCHANGED <<legacy, client, ctx, other, wire>>

\* Service.ListDatabases up to the call of c.httpClient.Do; page is passed
\* by value, so query is called on a pointer that is not nil
ListDatabases(token, page) ==
    /\ svc' = [op |-> "ListDatabases", token |-> token, pagination |-> page,
               out |-> NoOut]
    /\ DoBegins(MethodGet, "/databases", Pagination_query(page), NilBody,
                ZeroValue(DatabaseListFields), ZeroValue(FailureFields))
    /\ UNCHANGED <<legacy, client, ctx, other, wire>>

\* c.httpClient.Do hands the request to the Service's transport, which sends
\* its copy to the network
HandToTransport ==
    /\ pc = "exchange"
    /\ svc.op \in {"RetrieveDatabase", "QueryDatabase", "ListDatabases"}
    /\ wire = NoReq
    /\ LET t == RoundTrip([token |-> svc.token], req)
       IN  /\ wire' = t.sent
           /\ req' = t.req
    /\ UNCHANGED <<pc, args, resp, result, targetSuccess, targetFailure,
                   transportCalls, respBody, legacy, client, ctx, other, svc>>

\* the network answers the request that was sent
NetworkResponds(StatusCode, Body) ==
    /\ wire # NoReq
    /\ TransportResponds(StatusCode, Body)

\* the network fails after the request was sent
NetworkFails(cause) ==
    /\ wire # NoReq
    /\ TransportFails(cause)

\* the Service method returns to its caller
ServiceReturns ==
    /\ pc = "returned"
    /\ svc.op \in {"RetrieveDatabase", "QueryDatabase", "ListDatabases"}
    /\ svc.out = NoOut
    /\ svc' = [svc EXCEPT !.out = ServiceResult(result)]
    /\ UNCHANGED <<first, legacy, client, ctx, other, wire>>

NextService ==
    \/ \E p \in Paginations : Query(p)
    \/ \E token \in Tokens, databaseID \in DatabaseIDs :
            RetrieveDatabase(token, databaseID)
    \/ \E token \in Tokens, databaseID \in DatabaseIDs, filter \in Filters,
          sorts \in SortLists, pagination \in Paginations :
            QueryDatabase(token, databaseID, filter, sorts, pagination)
    \/ \E token \in Tokens, page \in Paginations \ {NilPagination} :
            ListDatabases(token, page)
    \/ HandToTransport
    \/ \E StatusCode \in FewStatusCodes, Body \in {DatabaseText, ListText, ErrorText, InvalidText} :
            NetworkResponds(StatusCode, Body)
    \/ NetworkFails("connection error")
    \/ ServiceReturns
    \/ Return

\* the methods of a Service built by notion.New
SpecService == Init /\ [][NextService]_vars

-----------------------------------------------------------------------------
(* The caller's targets after the call *)

\* the content of the cell an ApplicationError refers to: v is the pointer
\* the caller passed, so it is what the caller's cell holds now
Deref(e) ==
    CASE e.v = PtrFailure -> targetFailure
      [] e.v = PtrSuccess -> targetSuccess
      [] OTHER -> e.copy

\* ApplicationError.Error(): fmt.Sprintf("application error: %v", e.v), which
\* prints a pointer to a struct as & and the struct's fields
ApplicationErrorText(e) ==
    "application error: &{" \o Deref(e).code \o " " \o Deref(e).message \o "}"

\* what the caller may store in its failure target after the call
CallerValues ==
    FailureTargets \cup {[f \in FailureFields |-> IF f = "code" THEN "mine" ELSE "note"]}

\* the caller stores something else in its failure target after Do returned
CallerWrites(v) ==
    /\ pc = "returned"
    /\ v # targetFailure
    /\ targetFailure' = v
    /\ UNCHANGED <<pc, args, req, resp, result, targetSuccess, transportCalls,
                   respBody, legacy, client, ctx, other, svc, wire>>

NextAlias ==
    \/ \E method \in FewMethods, query \in FewQueries, body \in FewBodies :
            Do(method, "/foo", query, body,
               ZeroValue(SuccessFields), ZeroValue(FailureFields))
    \/ \E StatusCode \in FewStatusCodes, Body \in FewResponseBodies :
            TransportResponds(StatusCode, Body)
    \/ TransportFails("connection error")
    \/ \E v \in CallerValues : CallerWrites(v)
    \/ Return

\* a caller that reuses its failure target after the call
SpecAlias == Init /\ [][NextAlias]_vars

-----------------------------------------------------------------------------
(* What the properties speak about, stated on the inputs and answers alone *)

\* Client.Do has returned to its caller
Returned == pc = "returned"

\* c.httpClient.Do(r) answered with a response
GotResponse == resp.kind = "response"

\* the text is a JSON object whose members for the given fields are strings
WellFormedFor(text, fields) ==
    /\ text.syntax = "ok"
    /\ text.val.t = "object"
    /\ \A f \in DOMAIN text.val.o \cap fields : text.val.o[f].t = "string"

\* the text is not JSON at all
NotJSON(text) == text.syntax # "ok"

\* the text cannot be decoded into a struct with the given string fields
Undecodable(text, fields) ==
    \/ NotJSON(text)
    \/ text.val.t \notin {"object", "null"}
    \/ /\ text.val.t = "object"
       /\ \E f \in DOMAIN text.val.o \cap fields : text.val.o[f].t \notin {"string", "null"}

\* what a target that held old holds once the object of a well-formed text is
\* stored in it
Holding(text, old) ==
    [f \in DOMAIN old |-> IF f \in DOMAIN text.val.o THEN text.val.o[f].s ELSE old[f]]

\* the method contains a character that is not a token character
Malformed(method) == \E i \in 1..Len(method) : method[i] \notin {"G", "E", "T"}

\* neither target differs from what the caller passed
TargetsAsPassed ==
    /\ targetSuccess = args.targetSuccess
    /\ targetFailure = args.targetFailure

-----------------------------------------------------------------------------
(* C1 *)

-----------------------------------------------------------------------------
(* C2 *)

\* C2: whenever Do has returned after a response with status > 300 whose
\* body is valid JSON for the failure shape, it returned an Application
\* error, the failure target holds the decoded body and the success target is
\* as the caller passed it.
C2_FailureDecodedIntoTarget ==
    (Returned /\ GotResponse /\ resp.StatusCode > 300
        /\ WellFormedFor(resp.Body, FailureFields))
    => /\ result.kind = "Application"
       /\ targetFailure = Holding(resp.Body, args.targetFailure)
       /\ targetSuccess = args.targetSuccess

\* a 400 response with an error body has been stored over the code the
\* caller's failure target held
C2_Witness ==
    /\ Returned /\ GotResponse /\ resp.StatusCode = 400
    /\ resp.Body = ErrorText
    /\ args.targetFailure.code = "old"
    /\ targetFailure.code = "validation_error"
    /\ targetFailure.message = "bad id"
    /\ result.kind = "Application"

-----------------------------------------------------------------------------
(* C3 *)

-----------------------------------------------------------------------------
(* C4 *)

-----------------------------------------------------------------------------
(* C5 *)

-----------------------------------------------------------------------------
(* C6 *)

\* the URL Do requests for a path and a query mapping of the model
ExpectedURL(path, query) ==
    "https://api.notion.com/v1" \o path \o
        (CASE DOMAIN query = {} -> ""
           [] DOMAIN query = {"userId"} -> "?userId=horse"
           [] DOMAIN query = {"abc", "foo"} -> "?abc=a+b&foo=bar")

\* C6: whenever Do has returned after the transport failed without a
\* response, it returned a Transport error that wraps the transport's cause
\* and names the URL of the request, and both targets are as passed.
C6_TransportErrorWrapsCauseAndURL ==
    (Returned /\ resp.kind = "error")
    => /\ result.kind = "Transport"
       /\ result.Inner = resp.err
       /\ result.Inner.Err.kind = "cause"
       /\ result.Inner.Err.msg \in {"connection error", "context canceled"}
       /\ result.URL = ExpectedURL(args.path, args.query)
       /\ TargetsAsPassed

\* a connection error on a request with two query parameters
C6_Witness ==
    /\ Returned /\ resp.kind = "error"
    /\ resp.err.Err.msg = "connection error"
    /\ DOMAIN args.query = {"abc", "foo"}
    /\ result.kind = "Transport"
    /\ transportCalls = 1

-----------------------------------------------------------------------------
(* C7 *)

\* the error net/http reports for a method that is not a token
InvalidMethod == [kind |-> "cause", msg |-> "net/http: invalid method"]

\* C7 as stated: a call of Do with a malformed method has returned a Local
\* error wrapping the validation failure without invoking the transport or
\* touching a target, and the legacy buildRequest has returned a ClientError
\* wrapping the validation failure.
C7_Original_MalformedMethodWrapsValidation ==
    /\ (args # NoArgs /\ Malformed(args.method))
       => /\ Returned
          /\ result.kind = "Local"
          /\ result.Inner = InvalidMethod
          /\ transportCalls = 0 /\ resp = NoResp
          /\ TargetsAsPassed
    /\ (legacy # NoLegacy /\ Malformed(legacy.method))
       => /\ legacy.out.err.kind = "Client"
          /\ legacy.out.err.Inner = InvalidMethod

\* C7 amended: a call of Do with a malformed method has returned a Local
\* error without invoking the transport or touching a target; the error
\* wraps the validation failure unless the body is unserializable too, and
\* then it wraps the encode failure.  The legacy buildRequest has returned a
\* ClientError wrapping the validation failure.
C7_MalformedMethodIsLocal ==
    /\ (args # NoArgs /\ Malformed(args.method))
       => /\ Returned
          /\ result.kind = "Local"
          /\ result.Inner = (IF args.body = ChanBody
                             THEN [kind |-> "cause", msg |-> "json: unsupported type: chan int"]
                             ELSE InvalidMethod)
          /\ transportCalls = 0 /\ resp = NoResp
          /\ TargetsAsPassed
    /\ (legacy # NoLegacy /\ Malformed(legacy.method))
       => /\ legacy.out.err.kind = "Client"
          /\ legacy.out.err.Inner = InvalidMethod

\* Do has rejected the unicorn method of a call with a serializable body
C7_Witness ==
    /\ Returned
    /\ args.method = <<"U+1F984">>
    /\ args.body = StructBody("body")
    /\ result.Reason = "failed to create GET request"
    /\ transportCalls = 0

-----------------------------------------------------------------------------
(* C8 *)

\* C8: a call of Do with a body that cannot be serialized has returned a
\* Local error carrying the serialization cause, without invoking the
\* transport or touching a target.
C8_UnserializableBodyIsLocal ==
    (args # NoArgs /\ args.body = ChanBody)
    => /\ Returned
       /\ result.kind = "Local"
       /\ result.Inner = [kind |-> "cause", msg |-> "json: unsupported type: chan int"]
       /\ transportCalls = 0 /\ resp = NoResp
       /\ TargetsAsPassed

\* Do has rejected a channel body of a call with a valid method and path
C8_Witness ==
    /\ Returned
    /\ args.body = ChanBody
    /\ args.method = <<"G", "T">>
    /\ args.path = "/foo"
    /\ result.Reason = "failed to encode the body"

-----------------------------------------------------------------------------
(* C9 *)

-----------------------------------------------------------------------------
(* C10 *)

-----------------------------------------------------------------------------
(* C11 *)

\* a call of Do is under way or has returned
InCall == pc \in {"exchange", "returned"}

-----------------------------------------------------------------------------
(* C12 *)

\* C12: whenever Do has returned after a response, the body was read by at
\* most one decode and closed exactly once, whatever the result; after a
\* transport failure, and while the exchange is under way, the body was
\* neither read nor closed.
C12_BodyReadOnceClosedOnce ==
    InCall
    => /\ (Returned /\ GotResponse) => (respBody.reads <= 1 /\ respBody.closes = 1)
       /\ ~GotResponse => (respBody.reads = 0 /\ respBody.closes = 0)

\* the body of a 200 response that failed to decode has been closed
C12_Witness ==
    /\ Returned /\ GotResponse /\ resp.StatusCode = 200
    /\ resp.Body = EmptyText
    /\ result.kind = "Local"
    /\ respBody.reads = 1
    /\ respBody.closes = 1

-----------------------------------------------------------------------------
(* C13 *)

-----------------------------------------------------------------------------
(* C14 *)

\* the query string of the URL for a query mapping of the model: every pair,
\* URL-encoded
ExpectedQuery(query) ==
    CASE DOMAIN query = {"userId"} -> "userId=horse"
      [] DOMAIN query = {"abc", "foo"} -> "abc=a+b&foo=bar"

\* C14: for every non-empty query mapping, the URL of the request built by
\* Do, and by the legacy buildRequest, has the query string with every
\* key=value pair of the mapping, URL-encoded, whatever the order in which
\* the mapping was visited.
C14_QueryEncodedWhateverTheOrder ==
    /\ (InCall /\ req # NoReq /\ Cardinality(DOMAIN args.query) > 0)
       => /\ args.order \in Orders(args.query)
          /\ req.URL.RawQuery = ExpectedQuery(args.query)
    /\ (pc = "legacy" /\ legacy.out.err = nil /\ Cardinality(DOMAIN legacy.query) > 0)
       => /\ legacy.order \in Orders(legacy.query)
          /\ legacy.out.req.URL.RawQuery = ExpectedQuery(legacy.query)

\* the mapping was visited foo first, abc second
C14_Witness ==
    /\ pc = "exchange"
    /\ args.order = <<"foo", "abc">>
    /\ req.URL.RawQuery = "abc=a+b&foo=bar"

-----------------------------------------------------------------------------
(* C15 *)

\* C15: the request Do hands to the transport has the header Content-Type:
\* application/json exactly when the caller passed a non-nil body.
C15_ContentTypeIffBody ==
    (InCall /\ req # NoReq)
    => ( ( /\ "Content-Type" \in DOMAIN req.Header
           /\ req.Header["Content-Type"] = <<"application/json">> )
         <=> args.body.go # "nil" )

\* a request with a struct body waits for the transport with the header set
C15_Witness ==
    /\ pc = "exchange"
    /\ args.body = StructBody("")
    /\ req.Header["Content-Type"] = <<"application/json">>

-----------------------------------------------------------------------------
(* C16 *)

\* C16: when the caller passes a nil body, the request handed to the
\* transport has a body of zero bytes and no Content-Type header.
C16_NilBodySendsNoBytes ==
    (InCall /\ req # NoReq /\ args.body.go = "nil")
    => /\ req.Body = [syntax |-> "empty"]
       /\ "Content-Type" \notin DOMAIN req.Header

-----------------------------------------------------------------------------
(* C17 *)

\* C17: in every call of Do the transport is invoked at most once; once Do
\* has returned it was invoked exactly once if request construction
\* succeeded and not at all otherwise, whatever error Do returned.
C17_TransportInvokedOnce ==
    /\ transportCalls <= 1
    /\ pc = "exchange" => transportCalls = 0
    /\ Returned
       => transportCalls = (IF \/ args.body.go = "chan"
                               \/ Malformed(args.method)
                               \/ args.path = "/%zz"
                            THEN 0 ELSE 1)

\* a Transport error has been returned after one invocation
C17_Witness ==
    /\ Returned
    /\ result.kind = "Transport"
    /\ resp.err.Err.msg = "connection error"
    /\ transportCalls = 1

-----------------------------------------------------------------------------
(* C18 *)

\* the first caller's call as a record like that of the second caller
First ==
    [pc |-> pc, args |-> args, req |-> req, resp |-> resp, result |-> result,
     targetSuccess |-> targetSuccess, targetFailure |-> targetFailure,
     transportCalls |-> transportCalls, respBody |-> respBody]

\* two calls were given the same inputs
SameInputs(a, b) ==
    /\ a.method = b.method /\ a.path = b.path /\ a.query = b.query
    /\ a.body = b.body
    /\ a.targetSuccess = b.targetSuccess /\ a.targetFailure = b.targetFailure

\* a deterministic stub gave two calls the same answer: none, the same
\* response, or a failure with the same cause
SameStubAnswer(r, q) ==
    /\ r.kind = q.kind
    /\ r.kind = "response" => r = q
    /\ r.kind = "error" => r.err.Err = q.err.Err

\* C18: when a call of Do that started after another had returned was given
\* the same inputs and the same answer of the stub, both returned the same
\* result and left the same contents in their targets, and the Client is as
\* it was constructed.
C18_SameInputsSameOutcome ==
    (Returned /\ other.pc = "returned" /\ other.after
        /\ SameInputs(args, other.args) /\ SameStubAnswer(resp, other.resp))
    => /\ other.result = result
       /\ other.targetSuccess = targetSuccess
       /\ other.targetFailure = targetFailure
       /\ client = NewClient

\* two calls with a two-pair query, visited in different orders, have both
\* failed in the transport, the second after the first had returned
C18_Witness ==
    /\ Returned /\ other.pc = "returned" /\ other.after
    /\ SameInputs(args, other.args)
    /\ args.order # other.args.order
    /\ result.kind = "Transport"
    /\ other.result = result

-----------------------------------------------------------------------------
(* C19 *)

\* the call is what it is when run alone on a freshly constructed Client
\* against the same answer of the transport
AsAlone(call) ==
    (call.pc \in {"exchange", "returned"})
    => LET a == call.args
           n == newRequest(NewClient,
                           a.method, a.path, a.query, a.order, a.body)
           d == do(n.req, call.resp, a.targetSuccess, a.targetFailure)
       IN  /\ call.req = n.req
           /\ (call.pc = "returned" /\ n.err # nil)
              => /\ call.result = n.err
                 /\ call.targetSuccess = a.targetSuccess
                 /\ call.targetFailure = a.targetFailure
           /\ (call.pc = "returned" /\ n.err = nil)
              => /\ call.result = d.err
                 /\ call.targetSuccess = d.ts
                 /\ call.targetFailure = d.tf
           /\ call.pc = "exchange"
              => /\ call.targetSuccess = a.targetSuccess
                 /\ call.targetFailure = a.targetFailure

\* C19: with two calls of Do on one Client interleaved in every way, no step
\* writes the Client's fields, no step of one call changes anything of the
\* other call (its targets included), and each call's request, result and
\* target contents are those it has when run alone against the same answer.
C19_ConcurrentCallsDoNotInterfere ==
    /\ [](AsAlone(First) /\ AsAlone(other))
    /\ [][ /\ client' = client
           /\ other' # other => UNCHANGED first ]_vars

\* the second call started while the first was under way, and they ended
\* differently
C19_Witness ==
    /\ Returned /\ other.pc = "returned" /\ ~other.after
    /\ result = nil
    /\ targetSuccess.id = "d1"
    /\ other.result.kind = "Application"
    /\ other.targetFailure.code = "validation_error"
    /\ other.targetSuccess = ZeroValue(SuccessFields)

-----------------------------------------------------------------------------
(* C20 *)

-----------------------------------------------------------------------------
(* C21 *)

\* one of the legacy decoders has been applied to the response
LegacyDecoded == "fn" \in DOMAIN legacy

\* C21: whenever notion.decodeResponse or parseErrorFromResponse has been
\* applied to a response with status >= 300, it returned the package's
\* application error with HttpStatusCode equal to the status; when the body
\* is not valid JSON its Code and Message are empty and it is still an
\* application error, not a ClientError; and decodeResponse left the caller's
\* target as it was.
C21_LegacyFailureKeepsStatus ==
    (LegacyDecoded /\ resp.StatusCode >= 300)
    => /\ legacy.ret.err.kind =
              (IF legacy.fn = "decodeResponse" THEN "notion.ApplicationError"
               ELSE "notion.ApiServerError")
       /\ legacy.ret.err.HttpStatusCode = resp.StatusCode
       /\ NotJSON(resp.Body)
          => legacy.ret.err.Code = "" /\ legacy.ret.err.Message = ""
       /\ legacy.fn = "decodeResponse" => legacy.ret.target = legacy.target

\* decodeResponse was given a 503 whose body is not JSON and a target that
\* held something
C21_Witness ==
    /\ LegacyDecoded /\ legacy.fn = "decodeResponse"
    /\ resp.StatusCode = 503 /\ resp.Body = InvalidText
    /\ legacy.target.id = "old"
    /\ legacy.ret.err = notion_ApplicationError(503, "", "")
    /\ legacy.ret.target.id = "old"

-----------------------------------------------------------------------------
(* C22 *)

\* the error raised at the step of the call at which it failed
RaisedCause ==
    LET e == encode(args.body)
        n == NewRequest(args.method, client.opts.RootURL, args.path, e.buf)
    IN  IF e.err # nil THEN e.err
        ELSE IF n.err # nil THEN n.err
        ELSE IF resp.kind = "error" THEN resp.err
        ELSE IF resp.StatusCode <= 300 THEN decode(resp.Body, args.targetSuccess).err
        ELSE decode(resp.Body, args.targetFailure).err

-----------------------------------------------------------------------------
(* C23 *)

-----------------------------------------------------------------------------
(* C24 *)

\* a Service method that calls Client.Do is under way or has returned
InService == svc.op \in {"RetrieveDatabase", "QueryDatabase", "ListDatabases"}

\* the Service method has returned to its caller
ServiceReturned == InService /\ svc.out # NoOut

\* C24: whenever RetrieveDatabase, QueryDatabase or ListDatabases has
\* returned, exactly one of its result and its error is nil: if Do returned
\* an error of any kind the result is nil and the error is that very error;
\* if Do returned nil the error is nil and the result is the target Do
\* decoded the body into.
C24_ResultOrErrorNeverBoth ==
    ServiceReturned
    => /\ (svc.out.res = "nil") # (svc.out.err = nil)
       /\ result # nil => (svc.out.res = "nil" /\ svc.out.err = result)
       /\ result = nil
          => /\ svc.out.err = nil
             /\ svc.out.res = PtrSuccess
             /\ GotResponse
             /\ WellFormedFor(resp.Body, DOMAIN targetSuccess)
                => targetSuccess = Holding(resp.Body, args.targetSuccess)

\* QueryDatabase has returned nil and the Application error of Do after a 400
C24_Witness ==
    /\ ServiceReturned
    /\ svc.op = "QueryDatabase"
    /\ GotResponse
    /\ resp.StatusCode = 400
    /\ svc.out.res = "nil"
    /\ svc.out.err.kind = "Application"
    /\ targetFailure.code = "validation_error"

-----------------------------------------------------------------------------
(* C25 *)

\* the request of the QueryDatabase call under way is a POST to
\* /databases/<id>/query whose JSON payload has start_cursor exactly for a
\* pagination with a non-empty StartCursor, page_size exactly for one with a
\* non-zero PageSize, filter exactly for a filter, sorts exactly for a
\* non-empty list, nothing else, and is {} when all are absent
QueryRequestAsSpecified ==
    LET p == svc.pagination
        o == req.Body.val.o
    IN  /\ req.Method = <<"P", "O", "S", "T">>
        /\ URLString(req.URL) = root \o "/databases/" \o svc.databaseID \o "/query"
        /\ req.Body.syntax = "ok" /\ req.Body.val.t = "object"
        /\ DOMAIN o \subseteq {"filter", "sorts", "start_cursor", "page_size"}
        /\ "start_cursor" \in DOMAIN o <=> (p # NilPagination /\ p.StartCursor # "")
        /\ "start_cursor" \in DOMAIN o => o["start_cursor"] = JString(p.StartCursor)
        /\ "page_size" \in DOMAIN o <=> (p # NilPagination /\ p.PageSize # 0)
        /\ "page_size" \in DOMAIN o => o["page_size"] = JNumber(p.PageSize)
        /\ "filter" \in DOMAIN o <=> svc.filter # NilFilter
        /\ "sorts" \in DOMAIN o <=> svc.sorts # <<>>
        /\ (svc.filter = NilFilter /\ svc.sorts = <<>> /\ p = NilPagination)
           => req.Body = Text(JObject(<<>>))

\* C25 as stated: every call of QueryDatabase issues one POST to
\* /databases/<id>/query with the payload described.
C25_Original_AlwaysOnePost ==
    (svc.op = "QueryDatabase")
    => /\ req # NoReq
       /\ QueryRequestAsSpecified
       /\ ServiceReturned => transportCalls = 1

\* C25 amended: a call of QueryDatabase whose database id gives a URL that
\* parses builds the POST to /databases/<id>/query with the payload
\* described and has handed it to the transport exactly once when it returns;
\* a call whose id gives a URL that does not parse builds no request, hands
\* nothing to the transport and returns a Local error.
C25_QueryPayloadOmitsAbsentFields ==
    (svc.op = "QueryDatabase")
    => IF ("/databases/" \o svc.databaseID \o "/query") \in UnparsablePaths
       THEN /\ req = NoReq /\ wire = NoReq
            /\ transportCalls = 0
            /\ result.kind = "Local"
       ELSE /\ req # NoReq
            /\ QueryRequestAsSpecified
            /\ transportCalls <= 1
            /\ ServiceReturned => transportCalls = 1
            /\ wire # NoReq => wire.Body = req.Body /\ wire.Method = req.Method

\* a pagination with a cursor and page size 0, a filter and no sorts: the
\* payload sent has start_cursor and filter and neither page_size nor sorts
C25_Witness ==
    /\ svc.op = "QueryDatabase"
    /\ svc.pagination = Pagination("qwerty", 0)
    /\ svc.filter # NilFilter /\ svc.sorts = <<>>
    /\ wire # NoReq
    /\ DOMAIN wire.Body.val.o = {"filter", "start_cursor"}
    /\ ServiceReturned
    /\ transportCalls = 1

-----------------------------------------------------------------------------
(* C26 *)

\* the decimal numeral of the page sizes the model uses
Decimal(n) == CASE n = 0 -> "0" [] n = 7 -> "7" [] n = 100 -> "100" [] n = -1 -> "-1"

\* C26: whenever Pagination.query has been called, it returned nil for a nil
\* receiver and otherwise a mapping that has page_size, holding the decimal
\* PageSize also when that is 0, has start_cursor exactly when StartCursor is
\* not empty, and has no other key; and the URL of every request built by
\* ListDatabases has a page_size query parameter.
C26_PageSizeAlwaysSent ==
    /\ svc.op = "query"
       => LET p == svc.pagination
              m == svc.ret
          IN  IF p = NilPagination THEN m = <<>>
              ELSE /\ "page_size" \in DOMAIN m
                   /\ m["page_size"] = Decimal(p.PageSize)
                   /\ "start_cursor" \in DOMAIN m <=> p.StartCursor # ""
                   /\ "start_cursor" \in DOMAIN m => m["start_cursor"] = p.StartCursor
                   /\ DOMAIN m \subseteq {"page_size", "start_cursor"}
    /\ svc.op = "ListDatabases"
       => LET p == svc.pagination
          IN  /\ req # NoReq
              /\ req.URL.base = root \o "/databases"
              /\ req.URL.RawQuery =
                    "page_size=" \o Decimal(p.PageSize)
                    \o (IF p.StartCursor = "" THEN "" ELSE "&start_cursor=" \o p.StartCursor)

\* ListDatabases with the zero Pagination has sent a request, whose query is
\* page_size=0
C26_Witness ==
    /\ svc.op = "ListDatabases"
    /\ svc.pagination = Pagination("", 0)
    /\ wire # NoReq
    /\ URLString(wire.URL) = "https://api.notion.com/v1/databases?page_size=0"

-----------------------------------------------------------------------------
(* C27 *)

\* C27: whenever a request of a Service method has been handed to the
\* network, it carries Authorization: Bearer <token> with the Service's
\* token and the Notion-Version header, and is otherwise the request
\* Client.Do built; the request Client.Do built is still exactly what
\* newRequest made of the arguments, without either header; and no answer
\* reaches Do before the request was handed on.
C27_AuthHeadersOnClone ==
    InService
    => /\ wire # NoReq
          => /\ DOMAIN wire.Header = DOMAIN req.Header \cup {"Authorization", "Notion-Version"}
             /\ wire.Header["Authorization"] = <<"Bearer " \o svc.token>>
             /\ wire.Header["Notion-Version"] = <<"2021-05-13">>
             /\ [wire EXCEPT !.Header = req.Header] = req
       /\ req # NoReq
          => /\ req = newRequest(client, args.method, args.path, args.query,
                                 args.order, args.body).req
             /\ DOMAIN req.Header \cap {"Authorization", "Notion-Version"} = {}
       /\ transportCalls > 0 => wire # NoReq

\* a QueryDatabase request has been sent with the token "secret": the copy
\* has three headers, the request Do built only Content-Type
C27_Witness ==
    /\ svc.op = "QueryDatabase"
    /\ svc.token = "secret"
    /\ wire # NoReq
    /\ wire.Header["Authorization"] = <<"Bearer secret">>
    /\ DOMAIN wire.Header = {"Authorization", "Content-Type", "Notion-Version"}
    /\ DOMAIN req.Header = {"Content-Type"}
    /\ transportCalls = 1

-----------------------------------------------------------------------------
(* C28 *)

\* how a pipeline classified the response: from the error it returned
ClassOf(err) ==
    CASE err = nil -> "success"
      [] err.kind \in {"Application", "notion.ApplicationError"} -> "application failure"
      [] OTHER -> "neither"

\* the body decodes without error into the success target and into an error
\* value
WellFormedBody(text) ==
    /\ WellFormedFor(text, SuccessFields)
    /\ WellFormedFor(text, FailureFields)

-----------------------------------------------------------------------------
(* C29 *)

\* http.NewRequest rejects the method or the URL of the call
RequestRejected ==
    \/ (args.method # <<>> /\ \E i \in 1..Len(args.method) :
            args.method[i] \notin {"G", "E", "T", "P", "O", "S"})
    \/ args.path = "/%zz"

\* C29: in every call of Do the body is serialized first: a call with an
\* unserializable body has returned the Local error of the encode failure
\* whatever its method and path are; a call whose body serializes and whose
\* method or URL is rejected has returned the Local error of the request
\* construction; and only a call that passed both checks has a request, with
\* the query and Content-Type applied to it.
C29_EncodeBeforeMethodCheck ==
    (args # NoArgs)
    => /\ args.body = ChanBody
          => /\ Returned /\ req = NoReq /\ transportCalls = 0
             /\ result.kind = "Local"
             /\ result.Reason = "failed to encode the body"
       /\ (args.body # ChanBody /\ RequestRejected)
          => /\ Returned /\ req = NoReq /\ transportCalls = 0
             /\ result.kind = "Local"
             /\ result.Reason = "failed to create GET request"
       /\ (args.body # ChanBody /\ ~RequestRejected)
          => /\ req # NoReq
             /\ req.URL.RawQuery = "" <=> args.query = <<>>
             /\ "Content-Type" \in DOMAIN req.Header <=> args.body # NilBody

\* a call with a channel as body, the unicorn as method and a query has
\* returned the encode failure and built no request
C29_Witness ==
    /\ Returned
    /\ args.body = ChanBody
    /\ args.method = <<"U+1F984">>
    /\ args.query # <<>>
    /\ result.Reason = "failed to encode the body"
    /\ result.Inner.msg = "json: unsupported type: chan int"
    /\ req = NoReq

-----------------------------------------------------------------------------
(* C30 *)

\* C30: whenever Do has returned an Application error, the payload seen
\* through the error is what the caller's failure target holds at that
\* moment, be it what the decoder stored or what the caller has stored in the
\* target since; the error refers to the caller's cell.
C30_ApplicationErrorAliasesTarget ==
    (Returned /\ result.kind = "Application")
    => /\ result.v = PtrFailure
       /\ Deref(result) = targetFailure
       /\ ApplicationErrorText(result) =
              "application error: &{" \o targetFailure.code \o " "
                  \o targetFailure.message \o "}"

\* the decoder had stored the error body in the failure target, the caller
\* has overwritten it since, and the error shows the caller's value
C30_Witness ==
    /\ Returned /\ GotResponse
    /\ result.kind = "Application"
    /\ resp.Body = ErrorText
    /\ targetFailure.code = "old"
    /\ Deref(result).code = "old"
    /\ ApplicationErrorText(result) = "application error: &{old }"

====
